---- MODULE Spec2Model ----
(***************************************************************************)
(* Bookish Atelier API (src/main.py): a FastAPI application in front of a  *)
(* single "product" collection of a document store.                        *)
(*                                                                         *)
(* Conventions of the model                                                *)
(*   - a JSON / BSON value is a tagged record [t, v]: Null, Num(n),        *)
(*     Str(s), List(l), Oid(n); a document is a function from the field    *)
(*     names it holds to such values (an absent field is outside DOMAIN);  *)
(*   - text is a sequence of one-character strings, so that regular        *)
(*     expression search and case folding are computed; a character        *)
(*     outside ASCII is written as the token "U+XXXX";                     *)
(*   - decimal numbers are counted in hundredths (4.5 is 450, 9.99 is 999);*)
(*   - a Python call that may raise returns [ok, v]: v is the value, or    *)
(*     the name of the exception.                                          *)
(* The module `database` (db, create_document, get_documents) is imported  *)
(* by src/main.py and is not part of the source tree: its operations are   *)
(* modelled from section 4.1 of the specification.                         *)
(***************************************************************************)
EXTENDS Integers, Sequences, FiniteSets, TLC

VARIABLES
    env,          \* the process environment: [url, name], DATABASE_URL / DATABASE_NAME set or not
    db,           \* the module-level store handle: "none" (db is None) or "ok"
    store,        \* the documents of collection "product", in store-native order
    pc,           \* where the process is: "seed_start", "seed_insert", "seed_done", "serving"
    i,            \* seed_products_if_empty: how many samples this run has inserted
    runs,         \* how many times the process has been started
    created,      \* how many documents POST /api/products has persisted
    seededIds,    \* history: the ids of the documents the seeding routine inserted
    lenAtStart,   \* history: the size of the collection when this run's seeding began
    swallowed,    \* history: the step whose exception this run's seeding discarded
    request,      \* the last request handled since startup
    response,     \* its response
    storeOps      \* the store operations performed while handling it

vars == << env, db, store, pc, i, runs, created, seededIds, lenAtStart, swallowed,
           request, response, storeOps >>

---------------------------------------------------------------------------
(* Bounds of the model *)

\* how many times the process is started against the same store
MaxRuns == 2
\* how many documents POST /api/products may add
MaxPosts == 1
\* the largest number of collections list_collection_names reports
MaxCollections == 11

---------------------------------------------------------------------------
(* Values *)

Null == [t |-> "null", v |-> 0]
Absent == [t |-> "absent", v |-> 0]
Num(n) == [t |-> "num", v |-> n]
Str(s) == [t |-> "str", v |-> s]
List(l) == [t |-> "list", v |-> l]
Oid(n) == [t |-> "oid", v |-> n]

Ok(x) == [ok |-> TRUE, v |-> x]
Raise(e) == [ok |-> FALSE, v |-> e]

Min(a, b) == IF a < b THEN a ELSE b

\* s[:n]
Take(s, n) == SubSeq(s, 1, Min(Len(s), n))

\* doc.get(k, default)
Get(doc, k, default) == IF k \in DOMAIN doc THEN doc[k] ELSE default

\* Python truthiness, as used by `x or y` and `if x:`
Truthy(x) ==
    CASE x.t = "null" -> FALSE
      [] x.t = "absent" -> FALSE
      [] x.t = "num" -> x.v # 0
      [] x.t = "str" -> Len(x.v) > 0
      [] x.t = "list" -> Len(x.v) > 0
      [] OTHER -> TRUE

\* x or y
PyOr(x, y) == IF Truthy(x) THEN x ELSE y

\* float(x): a number converts, None raises TypeError
PyFloat(x) ==
    IF x.t = "num" THEN Ok(x) ELSE Raise("TypeError")

\* list(x)
PyList(x) ==
    IF x.t = "list" THEN Ok(x) ELSE Raise("TypeError")

HexDigits == << "0", "1", "2", "3", "4", "5", "6", "7", "8", "9", "a", "b", "c", "d", "e", "f" >>

HexValue(c) == CHOOSE n \in 0..15 : HexDigits[n + 1] = c

\* str(ObjectId): the hexadecimal text of the identifier
ObjectIdStr(n) == << HexDigits[(n \div 16) + 1], HexDigits[(n % 16) + 1] >>

\* ObjectId(text): the identifier the hexadecimal text denotes
ObjectIdParse(s) == HexValue(s[1]) * 16 + HexValue(s[2])

\* str(x) of doc.get("_id"): str(None) is "None"
PyStr(x) ==
    IF x.t = "oid" THEN Str(ObjectIdStr(x.v)) ELSE Str(<< "N", "o", "n", "e" >>)

\* the lower-case letter of each upper-case letter
UpperToLower ==
    [ A |-> "a", B |-> "b", C |-> "c", D |-> "d", E |-> "e", F |-> "f", G |-> "g",
      H |-> "h", I |-> "i", J |-> "j", K |-> "k", L |-> "l", M |-> "m", N |-> "n",
      O |-> "o", P |-> "p", Q |-> "q", R |-> "r", S |-> "s", T |-> "t", U |-> "u",
      V |-> "v", W |-> "w", X |-> "x", Y |-> "y", Z |-> "z" ]

\* one character with its case folded
Lower(c) == IF c \in DOMAIN UpperToLower THEN UpperToLower[c] ELSE c

\* {"$regex": q, "$options": "i"} on a text, for a pattern q without metacharacters:
\* q occurs somewhere in the text, letter case ignored
RegexSearchI(q, s) ==
    \E k \in 1..(Len(s) - Len(q) + 1) :
        \A j \in 1..Len(q) : Lower(s[k + j - 1]) = Lower(q[j])

---------------------------------------------------------------------------
(* Models: ProductIn and Product *)

RatingDefault == 450
RatingMax == 500
LimitDefault == 40
LimitMin == 1
LimitMax == 100
CollectionsShown == 10
ErrorTextShown == 50

IsStr(x) == x.t = "str"
IsOptionalStr(x) == x.t = "str" \/ x.t = "null"

\* ProductIn with ge=0 left off price
ProductInAnyPrice(p) ==
    /\ IsStr(p.title)
    /\ IsOptionalStr(p.description)
    /\ p.price.t = "num"
    /\ IsStr(p.category)
    /\ IsOptionalStr(p.image)
    /\ \/ p.rating.t = "null"
       \/ p.rating.t = "num" /\ p.rating.v >= 0 /\ p.rating.v <= RatingMax
    /\ p.tags.t = "list" /\ \A k \in 1..Len(p.tags.v) : IsStr(p.tags.v[k])

\* the field constraints of ProductIn, which Product inherits
ProductIn(p) ==
    /\ IsStr(p.title)
    /\ IsOptionalStr(p.description)
    /\ p.price.t = "num" /\ p.price.v >= 0
    /\ IsStr(p.category)
    /\ IsOptionalStr(p.image)
    /\ \/ p.rating.t = "null"
       \/ p.rating.t = "num" /\ p.rating.v >= 0 /\ p.rating.v <= RatingMax
    /\ p.tags.t = "list" /\ \A k \in 1..Len(p.tags.v) : IsStr(p.tags.v[k])

\* Product(**fields): ProductIn's constraints and a text id
Product(p) == ProductIn(p) /\ IsStr(p.id)

\* rating: Optional[float] = None
RatingOrNone(body) == Get(body, "rating", Null)

\* the default of `rating`
RatingOr(body) == Get(body, "rating", Num(RatingDefault))

\* the request body bound to `product: ProductIn`: defaults filled in, then validated
ParseProductIn(body) ==
    LET p == [ title |-> Get(body, "title", Absent),
               description |-> Get(body, "description", Null),
               price |-> Get(body, "price", Absent),
               category |-> Get(body, "category", Absent),
               image |-> Get(body, "image", Null),
               rating |-> RatingOr(body),
               tags |-> Get(body, "tags", List(<< >>)) ]
    IN  IF ProductIn(p) THEN Ok(p) ELSE Raise("RequestValidationError")

\* limit: int = Query(40, ge=1, le=100)
LimitOk(limit) == limit >= LimitMin /\ limit <= LimitMax

---------------------------------------------------------------------------
(* Helpers *)

serialize_product(doc) ==
    LET price == PyFloat(Get(doc, "price", Num(0)))
        rating == PyFloat(PyOr(Get(doc, "rating", Num(0)), Num(0)))
        tags == PyList(PyOr(Get(doc, "tags", List(<< >>)), List(<< >>)))
        p == [ id |-> PyStr(Get(doc, "_id", Null)),
               title |-> Get(doc, "title", Str(<< >>)),
               description |-> Get(doc, "description", Null),
               price |-> price.v,
               category |-> Get(doc, "category", Str(<< >>)),
               image |-> Get(doc, "image", Null),
               rating |-> rating.v,
               tags |-> tags.v ]
    IN  IF ~price.ok \/ ~rating.ok \/ ~tags.ok THEN Raise("TypeError")
        ELSE IF ~Product(p) THEN Raise("ValidationError")
        ELSE Ok(p)

\* [serialize_product(d) for d in docs]: the first exception ends the comprehension
SerializeAll(docs) ==
    IF \E k \in 1..Len(docs) : ~serialize_product(docs[k]).ok
    THEN Raise("Exception")
    ELSE Ok([k \in 1..Len(docs) |-> serialize_product(docs[k]).v])

---------------------------------------------------------------------------
(* Document store adapter: module `database`, from section 4.1 *)

books == << "b", "o", "o", "k", "s" >>
merch == << "m", "e", "r", "c", "h" >>

\* one store operation, as recorded in storeOps
Op(name, ok) == [op |-> name, ok |-> ok]

\* the identifier the store assigns to the next document
NextId(docs) == Len(docs) + 1

\* toStoredDocument and the store's insert: the document as given, plus the assigned _id
Inserted(docs, data) ==
    LET id == NextId(docs)
    IN  Append(docs, [f \in DOMAIN data \cup {"_id"} |->
                         IF f = "_id" THEN Oid(id) ELSE data[f]])

\* create_document(collection, data): the assigned identifier, as text
create_document(docs, data) == ObjectIdStr(NextId(docs))

\* one regular-expression condition of "$or" against a document: a text field
\* matches by search, a sequence field when one of its entries does
RegexCond(doc, cond) ==
    LET x == Get(doc, cond.field, Null)
    IN  \/ x.t = "str" /\ RegexSearchI(cond.regex, x.v)
        \/ x.t = "list" /\ \E k \in 1..Len(x.v) :
                              x.v[k].t = "str" /\ RegexSearchI(cond.regex, x.v[k].v)

\* whether a document satisfies a filter
Matches(doc, filter) ==
    /\ "category" \in DOMAIN filter =>
          LET x == Get(doc, "category", Absent)
          IN  x.t = "str" /\ x.v = filter["category"].v
    /\ "$or" \in DOMAIN filter =>
          \E k \in 1..Len(filter["$or"]) : RegexCond(doc, filter["$or"][k])

\* get_documents(collection, filter_dict, limit): up to `limit` matching documents,
\* in store-native order
get_documents(docs, filter, limit) ==
    LET Test(d) == Matches(d, filter)
    IN  Take(SelectSeq(docs, Test), limit)

\* db[collection].find_one({"_id": oid}): the document, or None
find_one(docs, oid) ==
    IF \E k \in 1..Len(docs) : Get(docs[k], "_id", Null) = Oid(oid)
    THEN LET k == CHOOSE k \in 1..Len(docs) : Get(docs[k], "_id", Null) = Oid(oid)
         IN  Ok(docs[k])
    ELSE Raise("None")

\* the store handle the configuration yields: absent without a connection string
\* or a database name
Database(e) == IF e.url /\ e.name THEN "ok" ELSE "none"

---------------------------------------------------------------------------
(* Seeding: the sample products of seed_products_if_empty *)

Sample1 ==
    [ title |-> Str(<<"T","h","e"," ","B","o","o","k","i","s","h"," ","A","t","e","l","i","e","r"," ",
          "J","o","u","r","n","a","l">>),
      description |-> Str(<<"A","5"," ","d","o","t","t","e","d"," ","j","o","u","r","n","a","l"," ",
          "f","o","r"," ","n","o","t","e","s"," ","a","n","d"," ","s","k","e","t","c","h","e",
          "s",".">>),
      price |-> Num(1499),
      category |-> Str(<<"s","t","u","d","y">>),
      image |-> Str(<<"/","i","m","a","g","e","s","/","j","o","u","r","n","a","l",".","j","p","g">>),
      rating |-> Num(470),
      tags |-> List(<<Str(<<"n","o","t","e","b","o","o","k">>), Str(<<"s","t","a","t","i","o","n","e",
          "r","y">>)>>) ]
Sample2 ==
    [ title |-> Str(<<"E","s","p","r","e","s","s","o"," ","S","h","o","t"," ","(","C","a","m","p","u",
          "s"," ","C","a","f","U+00E9",")">>),
      description |-> Str(<<"Q","u","i","c","k"," ","e","n","e","r","g","y"," ","b","o","o","s","t",
          " ","w","h","i","l","e"," ","y","o","u"," ","b","r","o","w","s","e",".">>),
      price |-> Num(249),
      category |-> Str(<<"s","n","a","c","k","s">>),
      image |-> Str(<<"/","i","m","a","g","e","s","/","e","s","p","r","e","s","s","o",".","j","p",
          "g">>),
      rating |-> Num(460),
      tags |-> List(<<Str(<<"c","o","f","f","e","e">>)>>) ]
Sample3 ==
    [ title |-> Str(<<"B","o","o","k","i","s","h"," ","A","t","e","l","i","e","r"," ","T","o","t",
          "e">>),
      description |-> Str(<<"C","a","n","v","a","s"," ","t","o","t","e"," ","f","o","r"," ","y","o",
          "u","r"," ","r","e","a","d","s",".">>),
      price |-> Num(1200),
      category |-> Str(<<"m","e","r","c","h">>),
      image |-> Str(<<"/","i","m","a","g","e","s","/","t","o","t","e",".","j","p","g">>),
      rating |-> Num(440),
      tags |-> List(<<Str(<<"b","a","g">>), Str(<<"g","i","f","t">>)>>) ]
Sample4 ==
    [ title |-> Str(<<"A","n","n","o","t","a","t","e","d"," ","C","l","a","s","s","i","c","s",":"," ",
          "P","r","i","d","e"," ","&"," ","P","r","e","j","u","d","i","c","e">>),
      description |-> Str(<<"C","u","r","a","t","e","d"," ","e","d","i","t","i","o","n"," ","w","i",
          "t","h"," ","s","t","u","d","y"," ","n","o","t","e","s",".">>),
      price |-> Num(1850),
      category |-> Str(<<"b","o","o","k","s">>),
      image |-> Str(<<"/","i","m","a","g","e","s","/","p","n","p",".","j","p","g">>),
      rating |-> Num(490),
      tags |-> List(<<Str(<<"c","l","a","s","s","i","c">>), Str(<<"n","o","v","e","l">>)>>) ]
Sample5 ==
    [ title |-> Str(<<"G","e","l"," ","I","n","k"," ","P","e","n","s"," ","(","S","e","t"," ","o","f",
          " ","5",")">>),
      description |-> Str(<<"S","m","o","o","t","h"," ","w","r","i","t","i","n","g",","," ","0",".",
          "5","m","m",".">>),
      price |-> Num(699),
      category |-> Str(<<"s","t","u","d","y">>),
      image |-> Str(<<"/","i","m","a","g","e","s","/","p","e","n","s",".","j","p","g">>),
      rating |-> Num(430),
      tags |-> List(<<Str(<<"p","e","n">>), Str(<<"s","t","a","t","i","o","n","e","r","y">>)>>) ]
Sample6 ==
    [ title |-> Str(<<"M","a","t","c","h","a"," ","C","o","o","k","i","e">>),
      description |-> Str(<<"C","r","i","s","p",","," ","l","i","g","h","t","l","y"," ","s","w","e",
          "e","t",".">>),
      price |-> Num(199),
      category |-> Str(<<"s","n","a","c","k","s">>),
      image |-> Str(<<"/","i","m","a","g","e","s","/","c","o","o","k","i","e",".","j","p","g">>),
      rating |-> Num(420),
      tags |-> List(<<Str(<<"c","o","o","k","i","e">>)>>) ]
Sample7 ==
    [ title |-> Str(<<"H","a","r","d","c","o","v","e","r",":"," ","T","h","e"," ","M","i","d","n","i",
          "g","h","t"," ","L","i","b","r","a","r","y">>),
      description |-> Str(<<"B","e","s","t","-","s","e","l","l","i","n","g"," ","n","o","v","e","l",
          ".">>),
      price |-> Num(2200),
      category |-> Str(<<"b","o","o","k","s">>),
      image |-> Str(<<"/","i","m","a","g","e","s","/","m","i","d","n","i","g","h","t",".","j","p",
          "g">>),
      rating |-> Num(480),
      tags |-> List(<<Str(<<"f","i","c","t","i","o","n">>)>>) ]
Sample8 ==
    [ title |-> Str(<<"E","n","a","m","e","l"," ","P","i","n"," ","U+2013"," ","B","o","o","k"," ",
          "L","o","v","e","r">>),
      description |-> Str(<<"C","u","t","e"," ","c","o","l","l","e","c","t","i","b","l","e"," ","p",
          "i","n",".">>),
      price |-> Num(450),
      category |-> Str(<<"m","e","r","c","h">>),
      image |-> Str(<<"/","i","m","a","g","e","s","/","p","i","n",".","j","p","g">>),
      rating |-> Num(410),
      tags |-> List(<<Str(<<"p","i","n">>), Str(<<"g","i","f","t">>)>>) ]

samples == << Sample1, Sample2, Sample3, Sample4, Sample5, Sample6, Sample7, Sample8 >>

---------------------------------------------------------------------------
(* Routes *)

Response(status, body) == [status |-> status, body |-> body]

Handled(resp, docs, ops) == [response |-> resp, store |-> docs, ops |-> ops]

\* the demo document of list_products, with the fresh ObjectId() it is given
Demo(oid) ==
    [ _id |-> Oid(oid),
      title |-> Str(<< "S", "a", "m", "p", "l", "e", " ", "B", "o", "o", "k" >>),
      description |-> Str(<< "D", "e", "m", "o", " ", "p", "r", "o", "d", "u", "c", "t", " ",
                             "(", "D", "B", " ", "n", "o", "t", " ", "c", "o", "n", "f", "i",
                             "g", "u", "r", "e", "d", ")" >>),
      price |-> Num(999),
      category |-> Str(books),
      image |-> Null,
      rating |-> Num(450),
      tags |-> List(<< >>) ]

\* the three conditions of filter_dict["$or"]
OrConditions(q) ==
    << [field |-> "title", regex |-> q.v],
       [field |-> "description", regex |-> q.v],
       [field |-> "tags", regex |-> q.v] >>

\* filter_dict with the category condition left out
FilterDictNoCategory(category, q) ==
    [k \in (IF Truthy(q) THEN {"$or"} ELSE {}) |-> OrConditions(q)]

\* filter_dict, as list_products builds it
FilterDict(category, q) ==
    LET keys == (IF Truthy(category) THEN {"category"} ELSE {}) \cup
                (IF Truthy(q) THEN {"$or"} ELSE {})
    IN  [k \in keys |-> IF k = "category" THEN category ELSE OrConditions(q)]

\* the value of the query parameter `limit`: the default when it is not given
LimitOf(limit) == IF limit.t = "absent" THEN LimitDefault ELSE limit.v

\* list_products with a store: the filter, the query and the serialization.
\* fault: whether the store's find raises
Query(docs, category, q, limit, fault) ==
    IF fault
    THEN Handled(Response(500, "Internal Server Error"), docs, << Op("find", FALSE) >>)
    ELSE LET found == get_documents(docs, FilterDict(category, q), LimitOf(limit))
             out == SerializeAll(found)
         IN  IF out.ok
             THEN Handled(Response(200, out.v), docs, << Op("find", TRUE) >>)
             ELSE Handled(Response(500, "Internal Server Error"), docs,
                          << Op("find", TRUE) >>)

\* list_products whose check of db is missing
list_products_unchecked(d, docs, category, q, limit, oid, fault) ==
    IF ~LimitOk(LimitOf(limit))
    THEN Handled(Response(422, "limit"), docs, << >>)
    ELSE Query(docs, category, q, limit, fault)

\* GET /api/products. category, q: Str(text) or Absent; limit: Num(n) or Absent;
\* oid: the ObjectId() of the demo document. The framework validates the query
\* parameters before it calls the handler
list_products(d, docs, category, q, limit, oid, fault) ==
    IF ~LimitOk(LimitOf(limit))
    THEN Handled(Response(422, "limit"), docs, << >>)
    ELSE IF d = "none"
    THEN Handled(Response(200, SerializeAll(<< Demo(oid) >>).v), docs, << >>)
    ELSE Query(docs, category, q, limit, fault)

\* create_product with a store: the insert, the read of the inserted document and
\* its serialization. fault: the store operation that raises, "none", "insert" or
\* "find_one"
Persist(docs, product, fault) ==
    IF fault = "insert"
    THEN Handled(Response(500, "Internal Server Error"), docs, << Op("insert", FALSE) >>)
    ELSE LET new_id == create_document(docs, product)
             after == Inserted(docs, product)
             doc == find_one(after, ObjectIdParse(new_id))
         IN  IF fault = "find_one" \/ ~doc.ok \/ ~serialize_product(doc.v).ok
             THEN Handled(Response(500, "Internal Server Error"), after,
                          << Op("insert", TRUE), Op("find_one", fault # "find_one") >>)
             ELSE Handled(Response(200, serialize_product(doc.v).v), after,
                          << Op("insert", TRUE), Op("find_one", TRUE) >>)

\* create_product whose check of db is missing
create_product_unchecked(d, docs, body, fault) ==
    LET product == ParseProductIn(body)
    IN  IF ~product.ok
        THEN Handled(Response(422, "body"), docs, << >>)
        ELSE Persist(docs, product.v, fault)

\* POST /api/products. body: the JSON object sent. The framework binds and validates
\* the body before it calls the handler
create_product(d, docs, body, fault) ==
    LET product == ParseProductIn(body)
    IN  IF ~product.ok
        THEN Handled(Response(422, "body"), docs, << >>)
        ELSE IF d = "none"
        THEN Handled(Response(500, "Database not available"), docs, << >>)
        ELSE Persist(docs, product.v, fault)

\* collections[:10] with the slice left out
ShownAll(names) == names

\* collections[:10]
Shown(names) == Take(names, CollectionsShown)

\* GET /test. listed: the outcome of db.list_collection_names(), Ok(names) or
\* Raise(text of the exception)
test_database(d, docs, e, listed) ==
    LET initial == [ backend |-> "Running",
                     database |-> [label |-> "Not Available", detail |-> << >>],
                     database_url |-> "None",
                     database_name |-> "None",
                     connection_status |-> "Not Connected",
                     collections |-> << >> ]
        connected == [ initial EXCEPT
                         !.database = [label |-> "Available", detail |-> << >>],
                         !.database_url = IF e.url THEN "Set" ELSE "Not Set",
                         !.database_name = IF e.name THEN "DATABASE_NAME" ELSE "Not Set",
                         !.connection_status = "Connected" ]
    IN  IF d = "none"
        THEN Handled(Response(200, initial), docs, << >>)
        ELSE IF listed.ok
        THEN Handled(Response(200,
                        [ connected EXCEPT
                            !.collections = Shown(listed.v),
                            !.database = [label |-> "Connected & Working",
                                          detail |-> << >>] ]),
                     docs, << Op("list_collection_names", TRUE) >>)
        ELSE Handled(Response(200,
                        [ connected EXCEPT
                            !.database = [label |-> "Connected but Error: ",
                                          detail |-> Take(listed.v, ErrorTextShown)] ]),
                     docs, << Op("list_collection_names", FALSE) >>)

---------------------------------------------------------------------------
(* Inputs *)

\* a document a well-behaved writer outside this program put in the collection
External ==
    [ _id |-> Oid(1),
      title |-> Str(<< "A", "t", "l", "a", "s" >>),
      description |-> Null,
      price |-> Num(500),
      category |-> Str(books),
      image |-> Null,
      rating |-> Num(400),
      tags |-> List(<< Str(<< "m", "a", "p" >>) >>) ]

Without(doc, f) == [k \in DOMAIN doc \ {f} |-> doc[k]]

\* documents put in the collection from outside: well-formed, or with one field
\* missing, null or out of range
ExternalDocs ==
    LET fields == << "title", "price", "category", "rating", "tags" >>
    IN  << External >>
          \o [k \in 1..Len(fields) |-> Without(External, fields[k])]
          \o [k \in 1..Len(fields) |-> [External EXCEPT ![fields[k]] = Null]]
          \o << [External EXCEPT !["price"] = Num(-1)],
                [External EXCEPT !["rating"] = Num(-1)],
                [External EXCEPT !["rating"] = Num(RatingMax + 1)] >>

\* what the collection may hold when the process first starts: nothing, or one of them
InitialStores == << << >> >> \o [k \in 1..Len(ExternalDocs) |-> << ExternalDocs[k] >>]

\* a request body that satisfies ProductIn and gives no rating
Body ==
    [ title |-> Str(<< "Z", "i", "n", "e" >>),
      price |-> Num(1250),
      category |-> Str(books) ]

\* the bodies POST /api/products is sent
Bodies ==
    << Body,
      [f \in DOMAIN Body \cup {"rating", "tags"} |->
          IF f = "rating" THEN Num(300)
          ELSE IF f = "tags" THEN List(<< Str(<< "p", "e", "n" >>) >>)
          ELSE IF f = "category" THEN Str(merch)
          ELSE Body[f]],
      [f \in DOMAIN Body \cup {"rating"} |-> IF f = "rating" THEN Null ELSE Body[f]],
      [Body EXCEPT !["price"] = Num(-1)],
      [f \in DOMAIN Body \cup {"rating"} |->
          IF f = "rating" THEN Num(RatingMax + 1) ELSE Body[f]],
      [f \in DOMAIN Body \cup {"rating"} |-> IF f = "rating" THEN Num(-1) ELSE Body[f]],
      Without(Body, "title") >>

\* the query parameters GET /api/products is sent
Categories == << Absent, Str(<< >>), Str(books), Str(merch) >>
Queries == << Absent, Str(<< "P", "E", "N" >>) >>
Limits == << Absent, Num(LimitMin - 1), Num(LimitMin), Num(LimitMax), Num(LimitMax + 1) >>

\* the values ObjectId() gives the demo document
DemoIds == {1, 255}

\* n collection names
CollectionNames(n) == [k \in 1..n |-> << "c", HexDigits[k + 1] >>]

\* the texts of the exceptions list_collection_names raises: short, and longer than
\* what the report shows
ErrorTexts == { << "d", "o", "w", "n" >>, [k \in 1..(ErrorTextShown + 2) |-> "x"] }

\* how many collections the store may hold
CollectionCounts == 0..MaxCollections

NoRequest == [op |-> "none"]
NoResponse == [status |-> 0, body |-> "none"]

---------------------------------------------------------------------------
(* The process *)

Init ==
    /\ env \in [url : BOOLEAN, name : BOOLEAN]
    /\ db = Database(env)
    /\ \E k \in 1..Len(InitialStores) :
          store = IF db = "ok" THEN InitialStores[k] ELSE << >>
    /\ pc = "seed_start"
    /\ i = 0
    /\ runs = 1
    /\ created = 0
    /\ seededIds = {}
    /\ lenAtStart = Len(store)
    /\ swallowed = "none"
    /\ request = NoRequest
    /\ response = NoResponse
    /\ storeOps = << >>

\* the routine with its check of the count left out
SeedAlways(count) == TRUE

\* `if count > 0: return`: whether the routine goes on to insert
SeedNeeded(count) == ~(count > 0)

\* the routine without its `except`: the exception leaves on_startup
SeedExceptionPropagates == "startup_failed"

\* `except Exception: pass`: where the routine is after an exception
OnSeedException == "seed_done"

\* seed_products_if_empty, up to the loop: the store check and the count query
SeedBegin ==
    /\ pc = "seed_start"
    /\ \/ /\ db = "none"
          /\ pc' = "seed_done"
          /\ UNCHANGED swallowed
       \/ /\ db # "none"
          /\ \E fault \in BOOLEAN :
                IF fault
                THEN pc' = OnSeedException /\ swallowed' = "count_documents"
                ELSE /\ pc' = IF SeedNeeded(Len(store)) THEN "seed_insert" ELSE "seed_done"
                     /\ UNCHANGED swallowed
    /\ UNCHANGED << env, db, store, i, runs, created, seededIds, lenAtStart,
                    request, response, storeOps >>

\* one turn of `for s in samples: create_document("product", s)`
SeedInsert ==
    /\ pc = "seed_insert"
    /\ \E fault \in BOOLEAN :
          IF fault
          THEN /\ pc' = OnSeedException
               /\ swallowed' = "insert"
               /\ UNCHANGED << store, i, seededIds >>
          ELSE /\ store' = Inserted(store, samples[i + 1])
               /\ seededIds' = seededIds \cup {NextId(store)}
               /\ i' = i + 1
               /\ pc' = IF i + 1 = Len(samples) THEN "seed_done" ELSE "seed_insert"
               /\ UNCHANGED swallowed
    /\ UNCHANGED << env, db, runs, created, lenAtStart, request, response, storeOps >>

\* on_startup returns: the startup event is over and the server accepts requests
StartupComplete ==
    /\ pc = "seed_done"
    /\ pc' = "serving"
    /\ UNCHANGED << env, db, store, i, runs, created, seededIds, lenAtStart, swallowed,
                    request, response, storeOps >>

\* route handlers that do not wait for the startup event
AcceptingEarly == TRUE

\* route handlers run once the startup event is over
Accepting == pc = "serving"

\* no request is being answered
Idle == request = NoRequest

ListProducts ==
    /\ Accepting
    /\ Idle
    /\ \E c \in DOMAIN Categories, q \in DOMAIN Queries, l \in DOMAIN Limits,
          oid \in (IF db = "none" THEN DemoIds ELSE {0}),
          fault \in (IF db = "none" THEN {FALSE} ELSE BOOLEAN) :
          LET h == list_products(db, store, Categories[c], Queries[q], Limits[l],
                                 oid, fault)
          IN  /\ request' = [op |-> "GET /api/products", category |-> Categories[c],
                             q |-> Queries[q], limit |-> Limits[l]]
              /\ response' = h.response
              /\ storeOps' = h.ops
              /\ store' = h.store
    /\ UNCHANGED << env, db, pc, i, runs, created, seededIds, lenAtStart, swallowed >>

CreateProduct ==
    /\ Accepting
    /\ Idle
    /\ \E b \in DOMAIN Bodies, fault \in {"none", "insert", "find_one"} :
          LET body == Bodies[b]
              h == create_product(db, store, body, fault)
              n == Len(h.store) - Len(store)
          IN  /\ created + n <= MaxPosts
              /\ request' = [op |-> "POST /api/products", body |-> body]
              /\ response' = h.response
              /\ storeOps' = h.ops
              /\ store' = h.store
              /\ created' = created + n
    /\ UNCHANGED << env, db, pc, i, runs, seededIds, lenAtStart, swallowed >>

TestDatabase ==
    /\ Accepting
    /\ Idle
    /\ \E raises \in BOOLEAN :
          \E listed \in (IF raises THEN {Raise(m) : m \in ErrorTexts}
                                    ELSE {Ok(CollectionNames(n)) : n \in CollectionCounts}) :
             LET h == test_database(db, store, env, listed)
             IN  /\ request' = [op |-> "GET /test"]
                 /\ response' = h.response
                 /\ storeOps' = h.ops
                 /\ store' = h.store
    /\ UNCHANGED << env, db, pc, i, runs, created, seededIds, lenAtStart, swallowed >>

\* the handler has returned and its response is sent: nothing of the request is kept
Respond ==
    /\ ~Idle
    /\ request' = NoRequest
    /\ response' = NoResponse
    /\ storeOps' = << >>
    /\ UNCHANGED << env, db, store, pc, i, runs, created, seededIds, lenAtStart, swallowed >>

\* the process is stopped and started again against the same store
Restart ==
    /\ pc = "serving"
    /\ runs < MaxRuns
    /\ runs' = runs + 1
    /\ pc' = "seed_start"
    /\ i' = 0
    /\ swallowed' = "none"
    /\ lenAtStart' = Len(store)
    /\ request' = NoRequest
    /\ response' = NoResponse
    /\ storeOps' = << >>
    /\ UNCHANGED << env, db, store, created, seededIds >>

Next ==
    \/ SeedBegin
    \/ SeedInsert
    \/ StartupComplete
    \/ ListProducts
    \/ CreateProduct
    \/ TestDatabase
    \/ Respond
    \/ Restart


Spec == Init /\ [][Next]_vars

\* the startup event runs its steps one after the other and none of them waits
FairSpec ==
    Spec /\ WF_vars(SeedBegin) /\ WF_vars(SeedInsert) /\ WF_vars(StartupComplete)

---------------------------------------------------------------------------
(* Properties *)

IsList == request.op = "GET /api/products"
IsCreate == request.op = "POST /api/products"
IsTest == request.op = "GET /test"

\* a body whose price is below 0 or whose rating is outside [0, 5]
OutOfRangeBody(body) ==
    \/ "price" \in DOMAIN body /\ body["price"].t = "num" /\ body["price"].v < 0
    \/ "rating" \in DOMAIN body /\ body["rating"].t = "num"
          /\ (body["rating"].v < 0 \/ body["rating"].v > 500)

\* a limit outside [1, 100]
OutOfRangeLimit(limit) == limit.t = "num" /\ (limit.v < 1 \/ limit.v > 100)

\* a limit inside [1, 100], or none
InRangeLimit(limit) == limit.t = "absent" \/ (limit.v >= 1 /\ limit.v <= 100)

\* a body with title, price >= 0 and category, and no rating
ValidWithoutRating(body) ==
    /\ "rating" \notin DOMAIN body
    /\ "title" \in DOMAIN body /\ body["title"].t = "str"
    /\ "price" \in DOMAIN body /\ body["price"].t = "num" /\ body["price"].v >= 0
    /\ "category" \in DOMAIN body /\ body["category"].t = "str"
    /\ "tags" \in DOMAIN body => body["tags"].t = "list"

\* the ids of the documents of a collection
Ids(docs) == {docs[k]["_id"].v : k \in 1..Len(docs)}

\* C1: a POST /api/products whose price is below 0 or whose rating is outside [0, 5],
\* and a GET /api/products whose limit is outside [1, 100], is answered 422 without
\* any store operation, and the collection is what it was before the request.
C1_OutOfRangeRejected ==
    [][ ( \/ request'.op = "POST /api/products" /\ OutOfRangeBody(request'.body)
          \/ request'.op = "GET /api/products" /\ OutOfRangeLimit(request'.limit) )
        => /\ response'.status = 422
           /\ storeOps' = << >>
           /\ store' = store ]_vars

C1_Witness ==
    /\ db = "ok"
    /\ Len(store) = 9
    /\ IsCreate
    /\ "rating" \in DOMAIN request.body /\ request.body["rating"].v = 501
    /\ response.status = 422

\* C2, as claimed: with db None every POST /api/products, whatever its body, is
\* answered 500 and performs no store operation.
C2_Original ==
    (db = "none" /\ IsCreate) => (response.status = 500 /\ storeOps = << >>)

\* C2, amended: with db None a POST /api/products performs no store operation and
\* persists nothing; it is answered 500 when its body satisfies ProductIn, and 422
\* when it does not: the body is validated before the handler checks db.
C2_Amended ==
    (db = "none" /\ IsCreate)
        => /\ storeOps = << >>
           /\ store = << >>
           /\ response.status = IF ParseProductIn(request.body).ok THEN 500 ELSE 422

C2_Witness ==
    /\ db = "none"
    /\ IsCreate
    /\ ValidWithoutRating(request.body)
    /\ response.status = 500
    /\ response.body = "Database not available"

\* C3: with db None, GET /api/products with a valid limit and any category and q
\* returns exactly one product, of category "books", without any store operation.
C3_DemoFallback ==
    (db = "none" /\ IsList /\ InRangeLimit(request.limit))
        => /\ response.status = 200
           /\ Len(response.body) = 1
           /\ response.body[1].category.v = books
           /\ storeOps = << >>

C3_Witness ==
    /\ db = "none"
    /\ IsList
    /\ request.category.t = "str" /\ request.category.v = merch
    /\ request.q.t = "str"
    /\ request.limit.t = "num" /\ request.limit.v = 1
    /\ response.status = 200
    /\ response.body[1].category.v = books

\* C4: however often the process is started against the same store, and wherever a
\* run's seeding failed, the collection holds at most 8 seeded documents, and a run
\* that found the collection non-empty has inserted nothing.
C4_SeedingIdempotent ==
    /\ Cardinality({k \in 1..Len(store) : store[k]["_id"].v \in seededIds}) <= 8
    /\ Cardinality(seededIds) <= 8
    /\ lenAtStart > 0 => i = 0

C4_Witness ==
    /\ runs = 2
    /\ pc = "serving"
    /\ created = 0
    /\ Cardinality(seededIds) = 3
    /\ Len(store) = 3
    /\ i = 0

\* C5, as claimed: serialize_product succeeds on every document GET /api/products
\* reads, with 0 for a missing or null price or rating and no tags for missing or
\* null tags, so that the request is answered 200 whatever the documents hold.
C5_Claim ==
    (db = "ok" /\ IsList /\ storeOps = << Op("find", TRUE) >>)
        => LET found == get_documents(store, FilterDict(request.category, request.q),
                                      LimitOf(request.limit))
           IN  /\ \A k \in 1..Len(found) :
                     LET doc == found[k]
                         out == serialize_product(doc)
                     IN  /\ out.ok
                         /\ Get(doc, "price", Null).t = "null" => out.v.price = Num(0)
                         /\ Get(doc, "rating", Null).t = "null" => out.v.rating = Num(0)
                         /\ Get(doc, "tags", Null).t = "null" => out.v.tags = List(<< >>)
               /\ response.status = 200

\* C6: GET /test is answered 200 in every state of the store; the report lists at
\* most 10 collections; when list_collection_names raises, the report differs from
\* that of a working store only in its database field, which holds the first 50
\* characters of the exception's text, and in listing no collection.
C6_TestAlwaysOk ==
    IsTest
        => /\ response.status = 200
           /\ response.body.backend = "Running"
           /\ Len(response.body.collections) <= 10
           /\ db = "none" => /\ response.body.database.label = "Not Available"
                             /\ storeOps = << >>
           /\ storeOps = << Op("list_collection_names", TRUE) >>
                 => response.body.database.label = "Connected & Working"
           /\ storeOps = << Op("list_collection_names", FALSE) >>
                 => /\ response.body.database.label = "Connected but Error: "
                    /\ Len(response.body.database.detail) <= 50
                    /\ response.body.collections = << >>
                    /\ response.body.connection_status = "Connected"

C6_Witness ==
    /\ IsTest
    /\ storeOps = << Op("list_collection_names", FALSE) >>
    /\ response.status = 200
    /\ Len(response.body.database.detail) = 50

\* C7: with a store whose operations complete, a POST /api/products whose body has a
\* title, a price >= 0 and a category and no rating adds exactly one document to the
\* collection and is answered 200 with rating 4.5 and the id of that document, which
\* no document had before.
C7_DefaultRating ==
    [][ ( /\ db = "ok"
          /\ request = NoRequest
          /\ request'.op = "POST /api/products"
          /\ ValidWithoutRating(request'.body)
          /\ \A k \in 1..Len(storeOps') : storeOps'[k].ok )
        => /\ response'.status = 200
           /\ Len(store') = Len(store) + 1
           /\ SubSeq(store', 1, Len(store)) = store
           /\ response'.body.rating = Num(450)
           /\ response'.body.id.v = ObjectIdStr(store'[Len(store')]["_id"].v)
           /\ store'[Len(store')]["_id"].v \notin Ids(store)
           /\ store'[Len(store')]["rating"] = Num(450) ]_vars

C7_Witness ==
    /\ db = "ok"
    /\ IsCreate
    /\ ValidWithoutRating(request.body)
    /\ response.status = 200
    /\ response.body.rating = Num(450)
    /\ Len(store) = 9
    /\ response.body.id.v = ObjectIdStr(9)

\* the products of a 200 answer all have category c, and are at most `limit`
OnlyCategory(c) ==
    /\ \A k \in 1..Len(response.body) :
          response.body[k].category.t = "str" /\ response.body[k].category.v = c
    /\ Len(response.body) <= (IF request.limit.t = "absent" THEN 40 ELSE request.limit.v)

\* C8, as claimed: with a store, GET /api/products with any text as category returns
\* only products of exactly that category, and at most `limit` of them.
C8_Original ==
    (db = "ok" /\ IsList /\ response.status = 200 /\ request.category.t = "str")
        => OnlyCategory(request.category.v)

\* C8, amended: with a store, GET /api/products with a non-empty text as category
\* returns only products of exactly that category, and at most `limit` of them; an
\* empty category is treated as none given.
C8_Amended ==
    ( /\ db = "ok" /\ IsList /\ response.status = 200
      /\ request.category.t = "str" /\ Len(request.category.v) > 0 )
        => OnlyCategory(request.category.v)

C8_Witness ==
    /\ db = "ok"
    /\ IsList
    /\ request.category.t = "str" /\ request.category.v = books
    /\ request.q.t = "absent"
    /\ request.limit.t = "num" /\ request.limit.v = 1
    /\ response.status = 200
    /\ Len(response.body) = 1
    /\ Cardinality({k \in 1..Len(store) :
                      Get(store[k], "category", Null) = Str(books)}) = 3
    /\ Len(store) = 9

\* C9: whichever step of the seeding fails, every start of the process reaches the
\* state in which it handles requests.
C9_StartupCompletes == (pc # "serving") ~> (pc = "serving")

C9_Witness ==
    /\ pc = "serving"
    /\ swallowed = "insert"
    /\ i = 7
    /\ IsList
    /\ response.status = 200
    /\ Len(response.body) = 7

\* C10: no request is handled before the seeding routine has returned: while the
\* process is starting no request has been handled, and during the inserts the
\* collection holds exactly the samples inserted so far.
C10_SeedingBeforeRequests ==
    /\ pc # "serving" => (request = NoRequest /\ storeOps = << >>)
    /\ pc = "seed_insert" => (Len(store) = i /\ Ids(store) = seededIds)

C10_Witness ==
    /\ pc = "serving"
    /\ runs = 1
    /\ i = 8
    /\ IsCreate
    /\ response.status = 200
    /\ Len(store) = 9

====
